---- MODULE Spec2Model ----
(***************************************************************************)
(* RAM Limiter GUI (ram_limiter_gui.pyw): the Game Mode controller thread, *)
(* the per-target limiter threads and the window's handlers that start and *)
(* stop them, over a small table of operating-system processes.            *)
(*                                                                         *)
(* Text is a sequence of one-character strings, so that int(), split(),    *)
(* strip() and lower() are computed as Python computes them.               *)
(***************************************************************************)
EXTENDS Integers, Sequences, FiniteSets, TLC

VARIABLES
    procs,               \* the OS process table: pid -> [rss, alive]
    game_mode_checkbox,  \* RAMLimiterGUI.game_mode_checkbox.isChecked()
    ram_limit_input,     \* RAMLimiterGUI.ram_limit_input.text()
    game_whitelist,      \* RAMLimiterGUI.game_whitelist.text()
    game_mode_thread,    \* RAMLimiterGUI.game_mode_thread (NoThread is None)
    gm_orphans,          \* GameModeThread objects still running, no longer referenced
    limiter_threads,     \* RAMLimiterGUI.limiter_threads: name -> RAMLimiterThread
    lt_orphans,          \* RAMLimiterThread objects still running, no longer in the dict
    gui,                 \* where the GUI thread is: idle, blocked in a wait(), closed
    pending,             \* the configuration a blocked load_configuration still has to apply
    last_call,           \* the handler that returned in the last step, if one did: what it
                         \* raised and the lines it put out (NoCall after any other step)
    kills,               \* the pids a proc.kill() of a Game Mode thread has killed
    events,              \* every update_signal.emit of a Game Mode thread, in order
    data,                \* RAMLimiterGUI.data: the usage samples the graph shows
    samples              \* how many samples SystemMemoryThread has emitted so far

vars == <<procs, game_mode_checkbox, ram_limit_input, game_whitelist,
          game_mode_thread, gm_orphans, limiter_threads, lt_orphans, gui,
          pending, last_call, kills, events, data, samples>>

---------------------------------------------------------------------------
(* Bounds of the model *)

\* pids 1..NProcs exist when the application starts
NProcs == 2

---------------------------------------------------------------------------
(* Text *)

UpperCase == <<"A","B","C","D","E","F","G","H","I","J","K","L","M",
               "N","O","P","Q","R","S","T","U","V","W","X","Y","Z">>
LowerCase == <<"a","b","c","d","e","f","g","h","i","j","k","l","m",
               "n","o","p","q","r","s","t","u","v","w","x","y","z">>
Digits == <<"0","1","2","3","4","5","6","7","8","9">>
Whitespace == {" ", "\t", "\n"}

\* the lower-case letter of each upper-case one
LowerOf == [c \in {UpperCase[i] : i \in 1..26} |->
                LowerCase[CHOOSE i \in 1..26 : UpperCase[i] = c]]

\* str.lower() on one character
LowerChar(c) == IF c \in DOMAIN LowerOf THEN LowerOf[c] ELSE c

\* str.lower()
Lower(s) == [i \in 1..Len(s) |-> LowerChar(s[i])]

RECURSIVE LStrip(_)
LStrip(s) ==
    IF s # <<>> /\ Head(s) \in Whitespace THEN LStrip(Tail(s)) ELSE s

RECURSIVE RStrip(_)
RStrip(s) ==
    IF s # <<>> /\ s[Len(s)] \in Whitespace
    THEN RStrip(SubSeq(s, 1, Len(s) - 1))
    ELSE s

\* str.strip()
Strip(s) == RStrip(LStrip(s))

\* str.split(','): the pieces between commas; the empty text gives one empty piece
RECURSIVE SplitFrom(_, _)
SplitFrom(s, piece) ==
    IF s = <<>> THEN <<piece>>
    ELSE IF Head(s) = "," THEN <<piece>> \o SplitFrom(Tail(s), <<>>)
    ELSE SplitFrom(Tail(s), Append(piece, Head(s)))

Split(s) == SplitFrom(s, <<>>)

DigitValue(c) == (CHOOSE i \in 1..Len(Digits) : Digits[i] = c) - 1

IsDigit(c) == \E i \in 1..Len(Digits) : Digits[i] = c

RECURSIVE DigitsValue(_, _)
DigitsValue(s, acc) ==
    IF s = <<>> THEN acc
    ELSE DigitsValue(Tail(s), acc * 10 + DigitValue(Head(s)))

\* int(text): surrounding whitespace and one sign are accepted, then digits only;
\* anything else raises ValueError
ParseInt(text) ==
    LET t == Strip(text)
        signed == t # <<>> /\ Head(t) \in {"+", "-"}
        d == IF signed THEN Tail(t) ELSE t
    IN  IF d # <<>> /\ \A i \in 1..Len(d) : IsDigit(d[i])
        THEN [ok |-> TRUE,
              value |-> IF signed /\ Head(t) = "-"
                        THEN 0 - DigitsValue(d, 0) ELSE DigitsValue(d, 0)]
        ELSE [ok |-> FALSE, value |-> 0]

---------------------------------------------------------------------------
(* What a handler of the window hands back *)

\* a handler that returned: what it raised and the lines it appended to output_area
\* or showed in a message box
\* (requested: the names start_limiter_thread was called with, in order;
\* terminated: how many threads terminate() was called on)
Returned(name, raised, output) ==
    [name |-> name, raised |-> raised, output |-> output,
     requested |-> <<>>, terminated |-> 0]

\* no handler returned in the last step
NoCall == Returned("", "none", <<>>)

\* one line of output: its fixed words and the values formatted into it
Line(text) == [text |-> text, name |-> "", value |-> 0, quoted |-> <<>>]

LineFor(text, name, value) ==
    [text |-> text, name |-> name, value |-> value, quoted |-> <<>>]

---------------------------------------------------------------------------
(* The operating system's processes *)

\* bytes in one MB, as the scan divides: rss / (1024 * 1024)
MB == 1024 * 1024

\* proc.name() of each pid the model knows
ProcNames == <<
    <<"S","y","s","t","e","m">>,
    <<"G","a","m","e",".","e","x","e">>,
    <<"h","o","g",".","e","x","e">>,
    <<"g","a","m","e",".","e","x","e","2">>,
    <<"c","h","r","o","m","e">> >>

Pids == 1..NProcs

ProcName(pid) == ProcNames[pid]

\* resident sizes a process takes: exactly 500 MB, and one byte more
RssValues == {500 * MB, 500 * MB + 1}

Dead == [rss |-> 0, alive |-> FALSE]

\* a process allocates or frees memory
ProcSetRss(pid, rss) ==
    /\ gui # "closed"
    /\ procs[pid].alive
    /\ procs[pid].rss # rss
    /\ procs' = [procs EXCEPT ![pid].rss = rss]
    /\ last_call' = NoCall
    /\ UNCHANGED <<game_mode_checkbox, ram_limit_input, game_whitelist,
                   game_mode_thread, gm_orphans, limiter_threads, lt_orphans,
                   gui, pending, kills, events, data, samples>>

\* a process exits on its own
ProcExit(pid) ==
    /\ gui # "closed"
    /\ procs[pid].alive
    /\ procs' = [procs EXCEPT ![pid] = Dead]
    /\ last_call' = NoCall
    /\ UNCHANGED <<game_mode_checkbox, ram_limit_input, game_whitelist,
                   game_mode_thread, gm_orphans, limiter_threads, lt_orphans,
                   gui, pending, kills, events, data, samples>>

---------------------------------------------------------------------------
(* GameModeThread *)

\* self.game_mode_thread = None
NoThread == [ram_limit_mb |-> 0, whitelist |-> <<>>, running |-> FALSE,
             pc |-> "None", scan |-> <<>>, caught |-> "none"]

\* GameModeThread(ram_limit_mb, whitelist) followed by start()
GameModeThread(ram_limit_mb, whitelist) ==
    [ram_limit_mb |-> ram_limit_mb, whitelist |-> whitelist, running |-> TRUE,
     pc |-> "test", scan |-> <<>>, caught |-> "none"]

\* QThread.isRunning(): started and run() has not returned
IsAlive(t) == t.pc \in {"test", "scan"}

\* (variant: the name is compared without lower())
IsWhitelistedCaseSensitive(name, whitelist) ==
    \E i \in 1..Len(whitelist) : whitelist[i] = name

\* (variant: an entry that is a part of the lowercased name matches too)
IsWhitelistedByPart(name, whitelist) ==
    \E i \in 1..Len(whitelist) :
        /\ whitelist[i] # <<>>
        /\ \E j \in 1..Len(name), k \in 1..Len(name) :
                SubSeq(Lower(name), j, k) = whitelist[i]

\* proc.name().lower() in self.whitelist
IsWhitelisted(name, whitelist) ==
    \E i \in 1..Len(whitelist) : whitelist[i] = Lower(name)

\* (variant: the comparison is >= instead of >)
ExceedsOrEqualsLimit(rss, ram_limit_mb) == rss \div MB >= ram_limit_mb

\* (variant: memory_mb is truncated to whole MBs before the comparison)
ExceedsLimitWholeMB(rss, ram_limit_mb) == rss \div MB > ram_limit_mb

\* memory_mb > self.ram_limit_mb, with memory_mb = rss / (1024 * 1024)
\* (whole MBs and the remaining bytes are compared apart: the product
\* ram_limit_mb * MB leaves the checker's integers for large limits)
ExceedsLimit(rss, ram_limit_mb) ==
    \/ rss \div MB > ram_limit_mb
    \/ rss \div MB = ram_limit_mb /\ rss % MB > 0

\* f"{memory_mb:.2f}": hundredths of a MB, rounded to nearest
FormatMB(rss) == (rss \div MB) * 100 + ((rss % MB) * 100 + MB \div 2) \div MB

\* where an iteration of the scan can raise: AccessDenied at a read or at the kill,
\* NoSuchProcess at the name() read after the kill
Faults == {"none", "name", "memory_info", "kill", "name_after_kill"}

\* the pids process_iter yields, in pid order
RECURSIVE AliveFrom(_)
AliveFrom(pid) ==
    IF pid > NProcs THEN <<>>
    ELSE IF procs[pid].alive THEN <<pid>> \o AliveFrom(pid + 1)
    ELSE AliveFrom(pid + 1)

\* (variant: while True, the flag is not tested)
GMLoopTestForever ==
    /\ game_mode_thread.pc = "test"
    /\ game_mode_thread' =
        [game_mode_thread EXCEPT !.pc = "scan", !.scan = AliveFrom(1),
                                 !.caught = "none"]
    /\ last_call' = NoCall
    /\ UNCHANGED <<procs, game_mode_checkbox, ram_limit_input,
                   game_whitelist, gm_orphans, limiter_threads, lt_orphans,
                   gui, pending, kills, events, data, samples>>

\* while self.running: ... the test at the top of each tick
GMLoopTest ==
    /\ game_mode_thread.pc = "test"
    /\ game_mode_thread' =
        IF game_mode_thread.running
        THEN [game_mode_thread EXCEPT !.pc = "scan", !.scan = AliveFrom(1),
                                      !.caught = "none"]
        ELSE [game_mode_thread EXCEPT !.pc = "finished", !.caught = "none"]
    /\ last_call' = NoCall
    /\ UNCHANGED <<procs, game_mode_checkbox, ram_limit_input,
                   game_whitelist, gm_orphans, limiter_threads, lt_orphans,
                   gui, pending, kills, events, data, samples>>

\* (variant: the whitelist test is left out)
ScanDecisionIgnoresWhitelist(t, pid, fault) ==
    IF ~procs[pid].alive THEN "NoSuchProcess"
    ELSE IF fault = "name" THEN "AccessDenied"
    ELSE IF fault = "memory_info" THEN "AccessDenied"
    ELSE IF ~ExceedsLimit(procs[pid].rss, t.ram_limit_mb) THEN "within"
    ELSE IF fault = "kill" THEN "AccessDenied"
    ELSE IF fault = "name_after_kill" THEN "killed_unreported"
    ELSE "killed"

\* what one iteration of the for loop decides for the process it looks at
ScanDecision(t, pid, fault) ==
    IF ~procs[pid].alive THEN "NoSuchProcess"
    ELSE IF fault = "name" THEN "AccessDenied"
    ELSE IF IsWhitelisted(ProcName(pid), t.whitelist) THEN "whitelisted"
    ELSE IF fault = "memory_info" THEN "AccessDenied"
    ELSE IF ~ExceedsLimit(procs[pid].rss, t.ram_limit_mb) THEN "within"
    ELSE IF fault = "kill" THEN "AccessDenied"
    ELSE IF fault = "name_after_kill" THEN "killed_unreported"
    ELSE "killed"

\* (variant: the except clause is outside the for loop: an error ends run())
GMScanStepAborting(fault) ==
    /\ game_mode_thread.pc = "scan"
    /\ game_mode_thread.scan # <<>>
    /\ LET t == game_mode_thread
           pid == Head(t.scan)
           d == ScanDecision(t, pid, fault)
           killed == d \in {"killed", "killed_unreported"}
           raised == d \in {"NoSuchProcess", "AccessDenied", "killed_unreported"}
       IN  /\ procs' = IF killed THEN [procs EXCEPT ![pid] = Dead] ELSE procs
           /\ kills' = IF killed THEN kills \cup {pid} ELSE kills
           /\ events' = IF d = "killed"
                        THEN Append(events, [text |-> "Killed process",
                                             name |-> ProcName(pid),
                                             mb |-> FormatMB(procs[pid].rss)])
                        ELSE events
           /\ game_mode_thread' =
                IF raised
                THEN [t EXCEPT !.pc = "finished", !.scan = <<>>,
                               !.caught = IF d = "killed_unreported"
                                          THEN "NoSuchProcess" ELSE d]
                ELSE [t EXCEPT !.scan = Tail(t.scan), !.caught = "none"]
    /\ last_call' = NoCall
    /\ UNCHANGED <<game_mode_checkbox, ram_limit_input, game_whitelist,
                   gm_orphans, limiter_threads, lt_orphans, gui, pending,
                   data, samples>>

\* (variant: the except clause emits a line for the process before it continues)
GMScanStepReportsDenied(fault) ==
    /\ game_mode_thread.pc = "scan"
    /\ game_mode_thread.scan # <<>>
    /\ LET t == game_mode_thread
           pid == Head(t.scan)
           d == ScanDecision(t, pid, fault)
           killed == d \in {"killed", "killed_unreported"}
       IN  /\ procs' = IF killed THEN [procs EXCEPT ![pid] = Dead] ELSE procs
           /\ kills' = IF killed THEN kills \cup {pid} ELSE kills
           /\ events' = CASE d = "killed" ->
                                Append(events, [text |-> "Killed process",
                                                name |-> ProcName(pid),
                                                mb |-> FormatMB(procs[pid].rss)])
                          [] d = "AccessDenied" ->
                                Append(events, [text |-> "Access denied",
                                                name |-> ProcName(pid),
                                                mb |-> 0])
                          [] OTHER -> events
           /\ game_mode_thread' =
                [t EXCEPT !.scan = Tail(t.scan),
                          !.caught = CASE d = "killed_unreported" -> "NoSuchProcess"
                                       [] d \in {"NoSuchProcess", "AccessDenied"} -> d
                                       [] OTHER -> "none"]
    /\ last_call' = NoCall
    /\ UNCHANGED <<game_mode_checkbox, ram_limit_input, game_whitelist,
                   gm_orphans, limiter_threads, lt_orphans, gui, pending,
                   data, samples>>

\* one iteration of: for proc in psutil.process_iter(...)
GMScanStep(fault) ==
    /\ game_mode_thread.pc = "scan"
    /\ game_mode_thread.scan # <<>>
    /\ LET t == game_mode_thread
           pid == Head(t.scan)
           d == ScanDecision(t, pid, fault)
           killed == d \in {"killed", "killed_unreported"}
       IN  /\ procs' = IF killed THEN [procs EXCEPT ![pid] = Dead] ELSE procs
           /\ kills' = IF killed THEN kills \cup {pid} ELSE kills
           /\ events' = IF d = "killed"
                        THEN Append(events, [text |-> "Killed process",
                                             name |-> ProcName(pid),
                                             mb |-> FormatMB(procs[pid].rss)])
                        ELSE events
           /\ game_mode_thread' =
                [t EXCEPT !.scan = Tail(t.scan),
                          !.caught = CASE d = "killed_unreported" -> "NoSuchProcess"
                                       [] d \in {"NoSuchProcess", "AccessDenied"} -> d
                                       [] OTHER -> "none"]
    /\ last_call' = NoCall
    /\ UNCHANGED <<game_mode_checkbox, ram_limit_input, game_whitelist,
                   gm_orphans, limiter_threads, lt_orphans, gui, pending,
                   data, samples>>

\* self.sleep(2) after the for loop, then back to the test
GMSleep ==
    /\ game_mode_thread.pc = "scan"
    /\ game_mode_thread.scan = <<>>
    /\ game_mode_thread' = [game_mode_thread EXCEPT !.pc = "test", !.caught = "none"]
    /\ last_call' = NoCall
    /\ UNCHANGED <<procs, game_mode_checkbox, ram_limit_input,
                   game_whitelist, gm_orphans, limiter_threads, lt_orphans,
                   gui, pending, kills, events, data, samples>>

\* (variant: stop() flips the flag instead of clearing it)
GMStopToggles(t) == [t EXCEPT !.running = ~@]

\* GameModeThread.stop
GMStop(t) == [t EXCEPT !.running = FALSE]

\* (variant: wait() does not block)
WaitReturnsAtOnce(t) == TRUE

\* QThread.wait() returns once run() has returned
WaitReturns(t) == ~IsAlive(t)

\* a reference to a Game Mode thread is dropped: the object lives on while it runs
DropThread(orphans, t) == IF IsAlive(t) THEN orphans \cup {t} ELSE orphans

---------------------------------------------------------------------------
(* RAMLimiterThread *)

\* where a thread stands in limit_ram_for_process before run() has called it:
\* the strategy it works by, the processes of the tick still to look at, the
\* actuator call in flight and its process, the processes trimmed in the tick
\* before and in this one, and the last outcome emitted
NotEntered ==
    [pc |-> "start", strategy |-> "unset", scan |-> <<>>, action |-> "none",
     pid |-> 0, reclaimed |-> {}, trimmed |-> {},
     outcome |-> [pid |-> 0, action_taken |-> "none"]]

\* RAMLimiterThread(process_name, interval, max_memory_percent) followed by start()
RAMLimiterThread(process_name, interval, max_memory_percent) ==
    [process_name |-> process_name, interval |-> interval,
     max_memory_percent |-> max_memory_percent, running |-> TRUE,
     loop |-> NotEntered]

\* run() returns: limit_ram_for_process came back
LimiterThreadExit(t) ==
    /\ gui # "closed"
    /\ t \in limiter_threads
    /\ t.running
    /\ limiter_threads' = (limiter_threads \ {t}) \cup {[t EXCEPT !.running = FALSE]}
    /\ last_call' = NoCall
    /\ UNCHANGED <<procs, game_mode_checkbox, ram_limit_input,
                   game_whitelist, game_mode_thread, gm_orphans, lt_orphans,
                   gui, pending, kills, events, data, samples>>

---------------------------------------------------------------------------
(* RAMLimiterGUI *)

\* what the user types into the RAM limit field
RamLimitTexts == { <<"5","0","0">>, <<"a","b","c">> }

\* what the user types into the whitelist field
WhitelistTexts == {
    <<>>,
    <<" ","G","A","M","E",".","e","x","e"," ",",","S","y","s","t","e","m">> }

\* system_processes in toggle_game_mode
system_processes == <<
    <<"e","x","p","l","o","r","e","r",".","e","x","e">>,
    <<"s","y","s","t","e","m">>,
    <<"s","y","s","t","e","m","d">>,
    <<"s","v","c","h","o","s","t",".","e","x","e">>,
    <<"c","s","r","s","s",".","e","x","e">>,
    <<"w","i","n","l","o","g","o","n",".","e","x","e">>,
    <<"s","e","r","v","i","c","e","s",".","e","x","e">> >>

\* [proc.strip().lower() for proc in self.game_whitelist.text().split(',')]
UserWhitelist(text) ==
    LET pieces == Split(text)
    IN  [i \in 1..Len(pieces) |-> Lower(Strip(pieces[i]))]

\* (variant: the built-in names are not appended)
UserWhitelistOnly(text) == UserWhitelist(text)

\* whitelist.extend(system_processes)
EffectiveWhitelist(text) == UserWhitelist(text) \o system_processes

\* the thread objects that stay running when the reference to them is dropped
Orphaned(orphans, dropped) == orphans \cup {t \in dropped : t.running}

\* (variant: an invalid limit falls back to 500 instead of raising)
GameModeOnDefaultLimit(limit_text, whitelist_text, thread, orphans) ==
    LET limit == ParseInt(limit_text)
    IN  [thread |-> GameModeThread(IF limit.ok THEN limit.value ELSE 500,
                                   EffectiveWhitelist(whitelist_text)),
         orphans |-> DropThread(orphans, thread),
         checkbox |-> TRUE,
         output |-> <<Line("Game Mode activated")>>]

\* toggle_game_mode(state) with the box checked, reading the two fields as they
\* are; on ValueError the box is unchecked again, which runs the unchecked branch
\* (self.game_mode_thread is None there, so that branch does nothing)
GameModeOn(limit_text, whitelist_text, thread, orphans) ==
    LET limit == ParseInt(limit_text)
    IN  IF limit.ok
        THEN [thread |-> GameModeThread(limit.value, EffectiveWhitelist(whitelist_text)),
              orphans |-> DropThread(orphans, thread),
              checkbox |-> TRUE,
              output |-> <<Line("Game Mode activated")>>]
        ELSE [thread |-> thread, orphans |-> orphans, checkbox |-> FALSE,
              output |-> <<Line("warning: Please enter a valid RAM limit")>>]

\* the user checks "Enable Game Mode"
ToggleOn ==
    /\ gui = "idle"
    /\ ~game_mode_checkbox
    /\ LET r == GameModeOn(ram_limit_input, game_whitelist, game_mode_thread, gm_orphans)
       IN  /\ game_mode_thread' = r.thread
           /\ gm_orphans' = r.orphans
           /\ game_mode_checkbox' = r.checkbox
           /\ last_call' = Returned("toggle_game_mode", "none", r.output)
    /\ UNCHANGED <<procs, ram_limit_input, game_whitelist, limiter_threads,
                   lt_orphans, gui, pending, kills, events, data, samples>>

\* the user unchecks "Enable Game Mode": stop(), then the handler blocks in wait()
ToggleOff ==
    /\ gui = "idle"
    /\ game_mode_checkbox
    /\ game_mode_checkbox' = FALSE
    /\ IF game_mode_thread.pc # "None"
       THEN /\ game_mode_thread' = GMStop(game_mode_thread)
            /\ gui' = "toggle_wait"
            /\ last_call' = NoCall
       ELSE /\ last_call' = Returned("toggle_game_mode", "none", <<>>)
            /\ UNCHANGED <<game_mode_thread, gui>>
    /\ UNCHANGED <<procs, ram_limit_input, game_whitelist, gm_orphans,
                   limiter_threads, lt_orphans, pending, kills, events,
                   data, samples>>

\* wait() returns: self.game_mode_thread = None
ToggleOffDone ==
    /\ gui = "toggle_wait"
    /\ WaitReturns(game_mode_thread)
    /\ game_mode_thread' = NoThread
    /\ gm_orphans' = DropThread(gm_orphans, game_mode_thread)
    /\ gui' = "idle"
    /\ last_call' = Returned("toggle_game_mode", "none",
                          <<Line("Game Mode deactivated")>>)
    /\ UNCHANGED <<procs, game_mode_checkbox, ram_limit_input, game_whitelist,
                   limiter_threads, lt_orphans, pending, kills, events,
                   data, samples>>

\* the user edits the RAM limit field
EditRamLimit(text) ==
    /\ gui = "idle"
    /\ ram_limit_input # text
    /\ ram_limit_input' = text
    /\ last_call' = NoCall
    /\ UNCHANGED <<procs, game_mode_checkbox, game_whitelist,
                   game_mode_thread, gm_orphans, limiter_threads, lt_orphans,
                   gui, pending, kills, events, data, samples>>

\* the user edits the whitelist field
EditWhitelist(text) ==
    /\ gui = "idle"
    /\ game_whitelist # text
    /\ game_whitelist' = text
    /\ last_call' = NoCall
    /\ UNCHANGED <<procs, game_mode_checkbox, ram_limit_input,
                   game_mode_thread, gm_orphans, limiter_threads, lt_orphans,
                   gui, pending, kills, events, data, samples>>

---------------------------------------------------------------------------
(* RAMLimiterGUI: the per-target limiter threads *)

\* the keys of self.process_checkboxes, in the order initUI inserts them
process_checkboxes == <<"discord", "chrome", "obs64", "Code", "msedge">>

\* the boxes the user checks in the model, and the custom names typed
Checkable == {"chrome"}
CustomNames == {"", "chrome", "myapp"}

\* what the user types into the interval, memory and custom limit fields
IntervalTexts == { <<>>, <<"x">> }
MemoryTexts == { <<>>, <<"8","0">> }
CustomLimitTexts == { <<>>, <<"6","0">>, <<"6","0","%">> }

\* (variant: the condition is left out)
MayStartAlways(threads, process_name) == TRUE

\* (variant: isRunning() is tested without the not)
MayStartWhenRunning(threads, process_name) ==
    \/ ~\E t \in threads : t.process_name = process_name
    \/ \E t \in threads : t.process_name = process_name /\ t.running

\* (variant: only the first half of the condition, an entry of a finished thread
\* keeps its name from being started again)
MayStartWhenAbsent(threads, process_name) ==
    ~\E t \in threads : t.process_name = process_name

\* process_name not in self.limiter_threads
\*     or not self.limiter_threads[process_name].isRunning()
MayStart(threads, process_name) ==
    \/ ~\E t \in threads : t.process_name = process_name
    \/ \E t \in threads : t.process_name = process_name /\ ~t.running

\* (variant: a running thread is given the new interval and limit)
start_limiter_thread_updating(st, process_name, interval, max_memory_percent) ==
    [threads |-> {t \in st.threads : t.process_name # process_name} \cup
                    {RAMLimiterThread(process_name, interval, max_memory_percent)},
     orphans |-> st.orphans,
     output |-> Append(st.output,
                       LineFor("Started limiting RAM for", process_name,
                               max_memory_percent)),
     requested |-> Append(st.requested, process_name)]

\* start_limiter_thread, on st = [threads, orphans, output, requested]
start_limiter_thread(st, process_name, interval, max_memory_percent) ==
    IF MayStart(st.threads, process_name)
    THEN LET old == {t \in st.threads : t.process_name = process_name}
         IN  [threads |-> (st.threads \ old) \cup
                    {RAMLimiterThread(process_name, interval, max_memory_percent)},
              orphans |-> Orphaned(st.orphans, old),
              output |-> Append(st.output,
                                LineFor("Started limiting RAM for", process_name,
                                        max_memory_percent)),
              requested |-> Append(st.requested, process_name)]
    ELSE [st EXCEPT !.requested = Append(@, process_name)]

\* for process_name, checkbox in self.process_checkboxes.items(): from the i-th on
RECURSIVE StartChecked(_, _, _, _, _)
StartChecked(st, i, checked, interval, max_memory_percent) ==
    IF i > Len(process_checkboxes) THEN st
    ELSE StartChecked(
            IF process_checkboxes[i] \in checked
            THEN start_limiter_thread(st, process_checkboxes[i], interval,
                                      max_memory_percent)
            ELSE st,
            i + 1, checked, interval, max_memory_percent)

\* (variant: a custom limit that is no integer is reported and nothing is started)
StartCustomStrict(st, custom_process, custom_limit, interval, max_memory_percent) ==
    IF custom_process = "" THEN st
    ELSE IF custom_limit = <<>>
    THEN start_limiter_thread(st, custom_process, interval, max_memory_percent)
    ELSE IF ParseInt(custom_limit).ok
    THEN start_limiter_thread(st, custom_process, interval,
                              ParseInt(custom_limit).value)
    ELSE [st EXCEPT !.output = Append(@,
            [Line("Invalid custom memory limit. Using global limit.")
                EXCEPT !.quoted = custom_limit])]

\* the part of start_limiting after the boxes: the custom process
StartCustom(st, custom_process, custom_limit, interval, max_memory_percent) ==
    IF custom_process = "" THEN st
    ELSE IF custom_limit = <<>>
    THEN start_limiter_thread(st, custom_process, interval, max_memory_percent)
    ELSE IF ParseInt(custom_limit).ok
    THEN start_limiter_thread(st, custom_process, interval,
                              ParseInt(custom_limit).value)
    ELSE start_limiter_thread(
            [st EXCEPT !.output = Append(@,
                [Line("Invalid custom memory limit. Using global limit.")
                    EXCEPT !.quoted = custom_limit])],
            custom_process, interval, max_memory_percent)

\* start_limiting, with the boxes and fields as the user left them
StartLimiting(checked, interval_text, memory_text, custom_process, custom_limit) ==
    /\ gui = "idle"
    /\ LET interval == ParseInt(IF interval_text = <<>> THEN <<"5">>
                                ELSE interval_text)
           memory == ParseInt(IF memory_text = <<>> THEN <<"7","5">>
                              ELSE memory_text)
           st0 == [threads |-> limiter_threads, orphans |-> lt_orphans,
                   output |-> <<>>, requested |-> <<>>]
           st == StartCustom(
                    StartChecked(st0, 1, checked, interval.value, memory.value),
                    custom_process, custom_limit, interval.value, memory.value)
       IN  IF interval.ok /\ memory.ok
           THEN /\ limiter_threads' = st.threads
                /\ lt_orphans' = st.orphans
                /\ last_call' = [Returned("start_limiting", "none", st.output)
                                    EXCEPT !.requested = st.requested]
           ELSE /\ last_call' = Returned("start_limiting", "ValueError", <<>>)
                /\ UNCHANGED <<limiter_threads, lt_orphans>>
    /\ UNCHANGED <<procs, game_mode_checkbox, ram_limit_input, game_whitelist,
                   game_mode_thread, gm_orphans, gui, pending, kills, events,
                   data, samples>>

\* (variant: the thread is left running)
LeftRunning(t) == t

\* if thread.isRunning(): thread.terminate(); thread.wait()
TerminateAndWait(t) == IF t.running THEN [t EXCEPT !.running = FALSE] ELSE t

\* stop_limiting, on the dict and the threads no longer in it
stop_limiting(threads, orphans) ==
    [threads |-> {},
     orphans |-> Orphaned(orphans, {TerminateAndWait(t) : t \in threads}),
     output |-> <<Line("Stopped all RAM limiting")>>,
     terminated |-> Cardinality({t \in threads : t.running})]

\* (variant: "Stop All" stops the Game Mode thread too)
StopLimitingAndGameMode ==
    /\ gui = "idle"
    /\ LET st == stop_limiting(limiter_threads, lt_orphans)
       IN  /\ limiter_threads' = st.threads
           /\ lt_orphans' = st.orphans
           /\ last_call' = [Returned("stop_limiting", "none", st.output)
                               EXCEPT !.terminated = st.terminated]
    /\ game_mode_thread' = IF game_mode_thread.pc # "None"
                           THEN GMStop(game_mode_thread) ELSE game_mode_thread
    /\ UNCHANGED <<procs, game_mode_checkbox, ram_limit_input, game_whitelist,
                   gm_orphans, gui, pending, kills, events, data, samples>>

\* the user clicks "Stop All"
StopLimiting ==
    /\ gui = "idle"
    /\ LET st == stop_limiting(limiter_threads, lt_orphans)
       IN  /\ limiter_threads' = st.threads
           /\ lt_orphans' = st.orphans
           /\ last_call' = [Returned("stop_limiting", "none", st.output)
                               EXCEPT !.terminated = st.terminated]
    /\ UNCHANGED <<procs, game_mode_checkbox, ram_limit_input, game_whitelist,
                   game_mode_thread, gm_orphans, gui, pending, kills, events,
                   data, samples>>

---------------------------------------------------------------------------
(* RAMLimiterGUI: load_configuration and closeEvent *)

\* no load_configuration is blocked
NoConfig == [has_game_mode |-> FALSE, enabled |-> FALSE,
             ram_limit |-> <<>>, whitelist |-> <<>>]

\* the files the user loads: without a "game_mode" key, or with one
Configs ==
    {NoConfig} \cup
    [has_game_mode : {TRUE}, enabled : BOOLEAN,
     ram_limit : { <<"5","0">> },
     whitelist : WhitelistTexts]

\* load_configuration from game_mode_checkbox.setChecked on; a box that changes
\* runs toggle_game_mode at once, before the two setText calls
LoadConfiguration(config) ==
    /\ gui = "idle"
    /\ IF ~config.has_game_mode
       THEN /\ last_call' = Returned("load_configuration", "none",
                                     <<Line("Configuration loaded")>>)
            /\ UNCHANGED <<game_mode_checkbox, ram_limit_input, game_whitelist,
                           game_mode_thread, gm_orphans, gui, pending>>
       ELSE IF config.enabled /\ ~game_mode_checkbox
       THEN LET r == GameModeOn(ram_limit_input, game_whitelist,
                                game_mode_thread, gm_orphans)
            IN  /\ game_mode_thread' = r.thread
                /\ gm_orphans' = r.orphans
                /\ game_mode_checkbox' = r.checkbox
                /\ ram_limit_input' = config.ram_limit
                /\ game_whitelist' = config.whitelist
                /\ last_call' = Returned("load_configuration", "none",
                        r.output \o <<Line("Configuration loaded")>>)
                /\ UNCHANGED <<gui, pending>>
       ELSE IF ~config.enabled /\ game_mode_checkbox
                /\ game_mode_thread.pc # "None"
       THEN /\ game_mode_checkbox' = FALSE
            /\ game_mode_thread' = GMStop(game_mode_thread)
            /\ gui' = "load_wait"
            /\ pending' = config
            /\ last_call' = NoCall
            /\ UNCHANGED <<ram_limit_input, game_whitelist, gm_orphans>>
       ELSE /\ game_mode_checkbox' = config.enabled
            /\ ram_limit_input' = config.ram_limit
            /\ game_whitelist' = config.whitelist
            /\ last_call' = Returned("load_configuration", "none",
                                     <<Line("Configuration loaded")>>)
            /\ UNCHANGED <<game_mode_thread, gm_orphans, gui, pending>>
    /\ UNCHANGED <<procs, limiter_threads, lt_orphans, kills, events,
                   data, samples>>

\* the wait() inside the nested toggle_game_mode returns; the load goes on
LoadConfigurationDone ==
    /\ gui = "load_wait"
    /\ WaitReturns(game_mode_thread)
    /\ game_mode_thread' = NoThread
    /\ gm_orphans' = DropThread(gm_orphans, game_mode_thread)
    /\ ram_limit_input' = pending.ram_limit
    /\ game_whitelist' = pending.whitelist
    /\ pending' = NoConfig
    /\ gui' = "idle"
    /\ last_call' = Returned("load_configuration", "none",
            <<Line("Game Mode deactivated"), Line("Configuration loaded")>>)
    /\ UNCHANGED <<procs, game_mode_checkbox, limiter_threads, lt_orphans,
                   kills, events, data, samples>>

\* closeEvent up to its wait(): if self.game_mode_thread: stop(), wait()
CloseEvent ==
    /\ gui = "idle"
    /\ game_mode_thread' = IF game_mode_thread.pc # "None"
                           THEN GMStop(game_mode_thread) ELSE game_mode_thread
    /\ gui' = "close_wait"
    /\ last_call' = NoCall
    /\ UNCHANGED <<procs, game_mode_checkbox, ram_limit_input,
                   game_whitelist, gm_orphans, limiter_threads, lt_orphans,
                   pending, kills, events, data, samples>>

\* whether closeEvent accepts: without a visible tray icon always, with one only
\* when the user answers No to minimizing and Yes to exiting
CloseAccepted(tray_visible, minimize, exit) ==
    ~tray_visible \/ (~minimize /\ exit)

\* closeEvent after the wait(): the questions, stop_limiting and accept, or ignore
CloseEventDone(tray_visible, minimize, exit) ==
    /\ gui = "close_wait"
    /\ WaitReturns(game_mode_thread)
    /\ IF CloseAccepted(tray_visible, minimize, exit)
       THEN LET st == stop_limiting(limiter_threads, lt_orphans)
            IN  /\ limiter_threads' = st.threads
                /\ lt_orphans' = st.orphans
                /\ last_call' = [Returned("closeEvent", "none", st.output)
                                    EXCEPT !.terminated = st.terminated]
                /\ gui' = "closed"
       ELSE /\ gui' = "idle"
            /\ last_call' = Returned("closeEvent", "none", <<>>)
            /\ UNCHANGED <<limiter_threads, lt_orphans>>
    /\ UNCHANGED <<procs, game_mode_checkbox, ram_limit_input, game_whitelist,
                   game_mode_thread, gm_orphans, pending, kills, events,
                   data, samples>>

---------------------------------------------------------------------------
(* The application *)

\* RAMLimiterGUI.__init__, initUI and init_game_mode have run
Init ==
    /\ procs \in [Pids -> [rss : RssValues, alive : {TRUE}]]
    /\ game_mode_checkbox = FALSE
    /\ ram_limit_input = <<"5","0","0">>
    /\ game_whitelist = <<>>
    /\ game_mode_thread = NoThread
    /\ gm_orphans = {}
    /\ limiter_threads = {}
    /\ lt_orphans = {}
    /\ gui = "idle"
    /\ pending = NoConfig
    /\ last_call = NoCall
    /\ kills = {}
    /\ events = <<>>
    /\ data = <<>>
    /\ samples = 0

\* Game Mode: the processes, the thread and every handler that touches it
Next ==
    \/ \E pid \in Pids, rss \in RssValues : ProcSetRss(pid, rss)
    \/ \E pid \in Pids : ProcExit(pid)
    \/ GMLoopTest
    \/ \E fault \in Faults : GMScanStep(fault)
    \/ GMSleep
    \/ ToggleOn
    \/ ToggleOff
    \/ ToggleOffDone
    \/ \E text \in RamLimitTexts : EditRamLimit(text)
    \/ \E text \in WhitelistTexts : EditWhitelist(text)
    \/ \E config \in Configs : LoadConfiguration(config)
    \/ LoadConfigurationDone
    \/ CloseEvent
    \/ \E tray_visible, minimize, exit \in BOOLEAN :
            CloseEventDone(tray_visible, minimize, exit)

Spec == Init /\ [][Next]_vars

\* The supervisor: the limiter threads, Game Mode and the handlers that start and
\* stop them, with the fields as the window opens
NextSupervisor ==
    \/ GMLoopTest
    \/ \E fault \in Faults : GMScanStep(fault)
    \/ GMSleep
    \/ ToggleOn
    \/ ToggleOff
    \/ ToggleOffDone
    \/ \E checked \in SUBSET Checkable, interval_text \in IntervalTexts,
          memory_text \in MemoryTexts, custom_process \in CustomNames,
          custom_limit \in CustomLimitTexts :
            StartLimiting(checked, interval_text, memory_text, custom_process,
                          custom_limit)
    \/ StopLimiting
    \/ \E t \in limiter_threads : LimiterThreadExit(t)
    \/ CloseEvent
    \/ \E tray_visible, minimize, exit \in BOOLEAN :
            CloseEventDone(tray_visible, minimize, exit)

\* every process is over 500 MB when the window opens
InitSupervisor ==
    /\ Init
    /\ \A pid \in Pids : procs[pid].rss = 500 * MB + 1

SpecSupervisor == InitSupervisor /\ [][NextSupervisor]_vars

---------------------------------------------------------------------------
(* Properties of the Game Mode scan *)

\* the entries of a whitelist
Entries(whitelist) == {whitelist[i] : i \in 1..Len(whitelist)}

\* the running controller protects pid: its lowercased name is an entry
Protects(t, pid) == Lower(ProcName(pid)) \in Entries(t.whitelist)

\* rss is more bytes than ram_limit_mb MBs (no resident size reaches 2048 MB here)
OverLimitBytes(rss, ram_limit_mb) == ram_limit_mb < 2048 /\ rss > ram_limit_mb * MB

\* this step is the scan's iteration on pid
ScansNow(pid) ==
    /\ game_mode_thread.pc = "scan"
    /\ game_mode_thread.scan # <<>>
    /\ Head(game_mode_thread.scan) = pid
    /\ game_mode_thread'.pc = "scan"
    /\ game_mode_thread'.scan = Tail(game_mode_thread.scan)

\* a tick of the running controller has looked at every process
ScanComplete ==
    /\ game_mode_thread.pc = "scan"
    /\ game_mode_thread.scan = <<>>

\* C1: a process whose lowercased name is in the running controller's whitelist
\* (the user's entries or the built-in names) is never killed by a scan, whatever
\* the limit is and however far over it the process is.
C1_ProtectedNeverKilled ==
    [][\A pid \in Pids :
        (pid \in kills' \ kills \/ (ScansNow(pid) /\ procs'[pid] # procs[pid]))
            => ~Protects(game_mode_thread, pid)]_vars

\* C1 witness: a tick is over in which the unprotected Game.exe was killed while
\* System, protected by the built-in name "system" and over the limit, still runs.
C1_Witness ==
    /\ ScanComplete
    /\ 2 \in kills
    /\ procs[1].alive
    /\ OverLimitBytes(procs[1].rss, game_mode_thread.ram_limit_mb)
    /\ <<"s","y","s","t","e","m">> \in Entries(game_mode_thread.whitelist)

\* C2: every Game Mode controller that was started holds every built-in
\* system-process name in its whitelist, whatever the user typed.
C2_BuiltinsAlwaysProtected ==
    \A t \in {game_mode_thread} \cup gm_orphans :
        t.pc # "None" =>
            \A name \in { <<"e","x","p","l","o","r","e","r",".","e","x","e">>,
                          <<"s","y","s","t","e","m">>,
                          <<"s","y","s","t","e","m","d">>,
                          <<"s","v","c","h","o","s","t",".","e","x","e">>,
                          <<"c","s","r","s","s",".","e","x","e">>,
                          <<"w","i","n","l","o","g","o","n",".","e","x","e">>,
                          <<"s","e","r","v","i","c","e","s",".","e","x","e">> } :
                name \in Entries(t.whitelist)

\* C2 witness: a controller runs whose user part names game.exe (not built in) and
\* system (built in), and whose whitelist still ends with the seven built-in names.
C2_Witness ==
    /\ IsAlive(game_mode_thread)
    /\ Len(game_mode_thread.whitelist) = 9
    /\ game_mode_thread.whitelist[1] = <<"g","a","m","e",".","e","x","e">>
    /\ game_mode_thread.whitelist[2] = <<"s","y","s","t","e","m">>

\* C3 as claimed: every scanned process that is not whitelisted and is over the
\* limit is dead when its iteration ends.
C3_Original ==
    [][\A pid \in Pids :
        ( /\ ScansNow(pid)
          /\ procs[pid].alive
          /\ ~Protects(game_mode_thread, pid)
          /\ OverLimitBytes(procs[pid].rss, game_mode_thread.ram_limit_mb) )
            => ~procs'[pid].alive]_vars

\* C3 amended: every scanned process that is not whitelisted and is over the limit
\* is killed in its own iteration of that tick, unless reading its name or memory,
\* or the kill itself, is refused with AccessDenied; no iteration reclaims memory:
\* it leaves every process as it was, or kills the one it looks at.
C3_KilledSameTickUnlessDenied ==
    [][\A pid \in Pids :
        ScansNow(pid) =>
            /\ ( /\ procs[pid].alive
                 /\ ~Protects(game_mode_thread, pid)
                 /\ OverLimitBytes(procs[pid].rss, game_mode_thread.ram_limit_mb)
                 /\ game_mode_thread'.caught # "AccessDenied" )
                    => (~procs'[pid].alive /\ pid \in kills')
            /\ procs' \in {procs, [procs EXCEPT ![pid] = Dead]}]_vars

\* C3 witness: Game.exe, one byte over the limit of 500 MB, has been killed and
\* reported.
C3_Witness ==
    /\ 2 \in kills
    /\ ~procs[2].alive
    /\ Len(events) = 1
    /\ events[1].name = ProcName(2)

\* C4: a process whose resident size equals the limit is left alone by the scan; a
\* kill happens only when the size is strictly greater than the limit.
C4_StrictThreshold ==
    [][\A pid \in Pids :
        /\ pid \in kills' \ kills =>
                OverLimitBytes(procs[pid].rss, game_mode_thread.ram_limit_mb)
        /\ ( /\ ScansNow(pid)
             /\ procs[pid].alive
             /\ procs[pid].rss = game_mode_thread.ram_limit_mb * MB )
                => (procs' = procs /\ kills' = kills /\ events' = events)]_vars

\* C4 witness: a tick is over and Game.exe, unprotected and at exactly 500 MB with
\* a limit of 500, still runs and nothing was killed or reported.
C4_Witness ==
    /\ ScanComplete
    /\ game_mode_thread.ram_limit_mb = 500
    /\ procs[2].alive
    /\ procs[2].rss = 500 * MB
    /\ ~Protects(game_mode_thread, 2)
    /\ kills = {}
    /\ events = <<>>

---------------------------------------------------------------------------
(* Properties of the Game Mode controller's life cycle *)

\* the Game Mode thread objects whose run() has not returned
ActiveControllers(thread, orphans) ==
    Cardinality({t \in orphans : IsAlive(t)}) + (IF IsAlive(thread) THEN 1 ELSE 0)

\* C9: after every step (toggles, configuration loads, close requests) at most one
\* Game Mode thread is active; a thread object is created only by a step that
\* leaves the box checked, and once the box is unchecked and its handler has
\* returned there is no thread object.
C9_OneController ==
    [][/\ ActiveControllers(game_mode_thread', gm_orphans') <= 1
       /\ (game_mode_thread.pc = "None" /\ game_mode_thread'.pc # "None")
            => game_mode_checkbox'
       /\ (gui' = "idle" /\ ~game_mode_checkbox') => game_mode_thread' = NoThread]_vars

\* C9 witness: a controller with the limit 50 runs: the limit came from a loaded
\* configuration and the controller from a later enabling of Game Mode, and no
\* other controller is left behind.
C9_Witness ==
    /\ IsAlive(game_mode_thread)
    /\ game_mode_thread.ram_limit_mb = 50
    /\ game_mode_checkbox
    /\ gui = "idle"
    /\ gm_orphans = {}

---------------------------------------------------------------------------
(* Properties of the supervisor *)

\* the limiter threads for process_name that run
RunningFor(threads, process_name) ==
    {t \in threads : t.process_name = process_name /\ t.running}

\* this step is a start_limiting that returned and asked to start process_name
\* while a thread for it was running
DuplicateStart(process_name) ==
    /\ last_call'.name = "start_limiting"
    /\ last_call'.raised # "ValueError"
    /\ \E i \in 1..Len(last_call'.requested) :
            last_call'.requested[i] = process_name
    /\ RunningFor(limiter_threads, process_name) # {}

\* the entry of process_name in the table and the threads outside it are the same
\* after the step
EntryUnchanged(process_name) ==
    /\ {t \in limiter_threads' : t.process_name = process_name}
            = {t \in limiter_threads : t.process_name = process_name}
    /\ lt_orphans' = lt_orphans

C6_OneLoopPerTarget ==
    \A process_name \in {t.process_name : t \in limiter_threads \cup lt_orphans} :
        Cardinality(RunningFor(limiter_threads, process_name))
            + Cardinality(RunningFor(lt_orphans, process_name)) <= 1

\* C6 witness: chrome and myapp run side by side with different limits: two
\* targets, one running thread each, and no thread outside the table.
C6_Witness ==
    /\ Cardinality(RunningFor(limiter_threads, "chrome")) = 1
    /\ Cardinality(RunningFor(limiter_threads, "myapp")) = 1
    /\ \E t \in RunningFor(limiter_threads, "chrome"),
          u \in RunningFor(limiter_threads, "myapp") :
            t.max_memory_percent # u.max_memory_percent
    /\ lt_orphans = {}

\* C7: stop_limiting with no limiter thread running raises nothing, terminates
\* nothing and leaves no thread running; with the table empty (as a first stop
\* leaves it) the table stays empty; stop() on a Game Mode thread that is not
\* active leaves it as it is; neither touches a process or reports a kill.
C7_StopIdempotent ==
    [][/\ ( /\ last_call'.name = "stop_limiting"
            /\ \A t \in limiter_threads : ~t.running )
            => /\ last_call'.raised = "none"
               /\ last_call'.terminated = 0
               /\ limiter_threads' = {}
               /\ lt_orphans' = lt_orphans
               /\ UNCHANGED <<procs, kills, events, game_mode_thread, gm_orphans>>
       /\ ( /\ gui = "idle"
            /\ gui' \in {"toggle_wait", "close_wait"}
            /\ ~IsAlive(game_mode_thread) )
            => UNCHANGED <<procs, kills, events, game_mode_thread, gm_orphans,
                           limiter_threads, lt_orphans>>]_vars

\* C7 witness: stop_limiting has returned having terminated nothing, the table is
\* empty, and the Game Mode thread, which killed a process before it was stopped,
\* is still stopped.
C7_Witness ==
    /\ last_call.name = "stop_limiting"
    /\ last_call.raised = "none"
    /\ last_call.terminated = 0
    /\ limiter_threads = {}
    /\ game_mode_thread.pc = "finished"
    /\ kills # {}

\* C8: once closeEvent has accepted the close, no limiter thread runs, the Game
\* Mode thread's run() has returned, and no thread is left outside the window's
\* references.
C8_ShutdownStopsAll ==
    gui = "closed" =>
        /\ \A t \in limiter_threads \cup lt_orphans : ~t.running
        /\ ~IsAlive(game_mode_thread)
        /\ \A t \in gm_orphans : ~IsAlive(t)

\* C8 witness: the close was accepted, stop_limiting inside it terminated running
\* limiter threads, and the Game Mode thread that was running has finished.
C8_Witness ==
    /\ gui = "closed"
    /\ last_call.name = "closeEvent"
    /\ last_call.terminated > 0
    /\ game_mode_thread.pc = "finished"
    /\ limiter_threads = {}

---------------------------------------------------------------------------
(* Properties of the Game Mode controller's parameters and reports *)

\* C13 as claimed: the ram_limit_mb of every running Game Mode controller is an
\* integer within [100, 4096].
C13_Original ==
    IsAlive(game_mode_thread) => game_mode_thread.ram_limit_mb \in 100..4096

\* C20 as claimed: every kill by the Game Mode scan appends exactly one event, for
\* the killed process, in the iteration that kills it, also when reading the
\* name after the kill fails; and an iteration appends at most one event.
C20_Original ==
    [][/\ \A pid \in Pids :
            pid \in kills' \ kills =>
                /\ Len(events') = Len(events) + 1
                /\ events'[Len(events')].name = ProcName(pid)
       /\ Len(events') <= Len(events) + 1
       /\ Len(events') > Len(events) => kills' # kills]_vars

---------------------------------------------------------------------------
(* The window's inputs: what is typed while threads run *)

\* what the user types into the fields in this specification: a second valid RAM
\* limit, an interval of zero, a memory limit over 100 percent
InputRamLimitTexts == RamLimitTexts \cup { <<"6","0","0">> }
InputIntervalTexts == { <<>>, <<"0">>, <<"x">> }
InputMemoryTexts == { <<>>, <<"1","5","0">> }
InputCustomNames == {"", "myapp"}

\* every process is at exactly 500 MB when the window opens
InitInputs ==
    /\ Init
    /\ \A pid \in Pids : procs[pid].rss = 500 * MB

\* Game Mode and the limiter threads, with the fields edited between the clicks
NextInputs ==
    \/ GMLoopTest
    \/ GMScanStep("none")
    \/ GMSleep
    \/ ToggleOn
    \/ ToggleOff
    \/ ToggleOffDone
    \/ \E text \in InputRamLimitTexts : EditRamLimit(text)
    \/ \E text \in WhitelistTexts : EditWhitelist(text)
    \/ \E interval_text \in InputIntervalTexts, memory_text \in InputMemoryTexts,
          custom_process \in InputCustomNames :
            StartLimiting({}, interval_text, memory_text, custom_process, <<>>)
    \/ StopLimiting

SpecInputs == InitInputs /\ [][NextInputs]_vars

---------------------------------------------------------------------------
(* Properties of what is accepted at start time *)

\* this step checks "Enable Game Mode" while the RAM limit field holds no integer
EnablesWithInvalidLimit ==
    /\ gui = "idle"
    /\ ~game_mode_checkbox
    /\ last_call'.name = "toggle_game_mode"
    /\ \/ ram_limit_input = <<>>
       \/ \E i \in 1..Len(ram_limit_input) :
            ram_limit_input[i] \notin {"0","1","2","3","4","5","6","7","8","9"}

\* C11: checking "Enable Game Mode" while the RAM limit field holds no integer
\* starts nothing: afterwards there is no Game Mode thread, the box is unchecked
\* again, a warning was shown, and the limiter threads are as they were.
C11_InvalidLimitRejected ==
    [][EnablesWithInvalidLimit =>
        /\ game_mode_thread' = NoThread
        /\ gm_orphans' = {}
        /\ ~game_mode_checkbox'
        /\ last_call'.output # <<>>
        /\ \A i \in 1..Len(last_call'.output) :
                last_call'.output[i].text # "Game Mode activated"
        /\ UNCHANGED <<limiter_threads, lt_orphans, procs, kills, events>>]_vars

\* C11 witness: the toggle has returned with its warning, the field holds "abc",
\* no Game Mode thread exists, the box is unchecked, and the limiter thread that
\* was running still runs.
C11_Witness ==
    /\ last_call.name = "toggle_game_mode"
    /\ last_call.output = <<Line("warning: Please enter a valid RAM limit")>>
    /\ ram_limit_input = <<"a","b","c">>
    /\ game_mode_thread = NoThread
    /\ ~game_mode_checkbox
    /\ RunningFor(limiter_threads, "myapp") # {}

\* C12 as claimed: start_limiting starts no thread whose interval is not greater
\* than 0, whose memory limit is outside 1..100 or whose name is empty.
C12_Original ==
    [][last_call'.name = "start_limiting" =>
        \A t \in limiter_threads' \ limiter_threads :
            /\ t.interval > 0
            /\ t.max_memory_percent \in 1..100
            /\ t.process_name # ""]_vars

\* C14: while a thread runs its parameters stay what they were at its start: a
\* Game Mode thread keeps its ram_limit_mb and whitelist until the reference to
\* it is dropped, and a running limiter thread for a name is followed, one step
\* later, by no running thread for that name with another interval or limit.
C14_ParametersFixedWhileRunning ==
    [][/\ (game_mode_thread.pc # "None" /\ game_mode_thread'.pc # "None")
            => /\ game_mode_thread'.ram_limit_mb = game_mode_thread.ram_limit_mb
               /\ game_mode_thread'.whitelist = game_mode_thread.whitelist
       /\ \A t \in limiter_threads, u \in limiter_threads' :
            (t.running /\ u.running /\ u.process_name = t.process_name)
                => /\ u.interval = t.interval
                   /\ u.max_memory_percent = t.max_memory_percent]_vars

\* C14 witness: Game Mode runs with the limit 500 and the built-in whitelist after
\* both fields were edited, and myapp's thread runs with interval 5 and limit 75
\* after a start_limiting that asked for myapp again and started nothing.
C14_Witness ==
    /\ IsAlive(game_mode_thread)
    /\ game_mode_thread.ram_limit_mb = 500
    /\ Len(game_mode_thread.whitelist) = 8
    /\ ram_limit_input = <<"6","0","0">>
    /\ game_whitelist # <<>>
    /\ \E t \in RunningFor(limiter_threads, "myapp") :
            t.interval = 5 /\ t.max_memory_percent = 75
    /\ last_call.name = "start_limiting"
    /\ last_call.requested = <<"myapp">>
    /\ last_call.output = <<>>

\* C15 as claimed: a Game Mode thread and a limiter thread for a name the Game
\* Mode whitelist does not hold (a process of that name is in the scope of both)
\* never run at the same time.
C15_Original ==
    ~( /\ IsAlive(game_mode_thread)
       /\ RunningFor(limiter_threads, "myapp") # {}
       /\ <<"m","y","a","p","p">> \notin Entries(game_mode_thread.whitelist) )

---------------------------------------------------------------------------
(* Stopping the Game Mode controller *)

\* Game Mode started and stopped next to processes that grow, shrink and exit;
\* the operating system schedules the Game Mode thread again and again, and a
\* handler blocked in wait() goes on once wait() can return
NextStop ==
    \/ \E pid \in Pids, rss \in RssValues : ProcSetRss(pid, rss)
    \/ \E pid \in Pids : ProcExit(pid)
    \/ GMLoopTest
    \/ \E fault \in Faults : GMScanStep(fault)
    \/ GMSleep
    \/ ToggleOn
    \/ ToggleOff
    \/ ToggleOffDone
    \/ \E config \in Configs : LoadConfiguration(config)
    \/ LoadConfigurationDone
    \/ CloseEvent
    \/ \E tray_visible, minimize, exit \in BOOLEAN :
            CloseEventDone(tray_visible, minimize, exit)

SpecFair ==
    /\ Init
    /\ [][NextStop]_vars
    /\ WF_vars(GMLoopTest)
    /\ WF_vars(\E fault \in Faults : GMScanStep(fault))
    /\ WF_vars(GMSleep)
    /\ WF_vars(ToggleOffDone)
    /\ WF_vars(LoadConfigurationDone)
    /\ WF_vars(\E tray_visible, minimize, exit \in BOOLEAN :
                    CloseEventDone(tray_visible, minimize, exit))

\* stop() was called on the Game Mode thread and its run() has not returned
StopRequested == IsAlive(game_mode_thread) /\ ~game_mode_thread.running

\* a handler is blocked in wait() on the Game Mode thread
Waiting == gui \in {"toggle_wait", "load_wait", "close_wait"}

\* C19: once stop() was called on a running Game Mode thread, the thread goes
\* through the rest of the scan in progress iteration by iteration, begins no
\* other scan, and its run() returns, so that the handler blocked in wait() goes
\* on; and while no Game Mode thread is active no process is killed and no kill
\* is reported.
C19_StopReachesIdle ==
    /\ [][/\ (StopRequested /\ game_mode_thread' # game_mode_thread) =>
                /\ game_mode_thread'.pc # "None"
                /\ ~game_mode_thread'.running
                /\ game_mode_thread.pc = "test" => game_mode_thread'.pc = "finished"
                /\ game_mode_thread.pc = "scan" =>
                        IF game_mode_thread.scan = <<>>
                        THEN game_mode_thread'.pc = "test"
                        ELSE /\ game_mode_thread'.pc = "scan"
                             /\ game_mode_thread'.scan = Tail(game_mode_thread.scan)
          /\ ~IsAlive(game_mode_thread) => (kills' = kills /\ events' = events)]_vars
    /\ StopRequested ~> ~IsAlive(game_mode_thread)
    /\ Waiting ~> ~Waiting

\* C19 witness: the handler that unchecked the box is blocked in wait(), and the
\* stopped thread, which killed Game.exe, has left its loop.
C19_Witness ==
    /\ gui = "toggle_wait"
    /\ game_mode_thread.pc = "finished"
    /\ ~game_mode_thread.running
    /\ 2 \in kills
    /\ ~procs[2].alive

---------------------------------------------------------------------------
(* limit_ram_for_process: the enforcement loop RAMLimiterThread.run calls *)

Strategies == {"Aggressive", "Balanced", "Conservative"}

\* total system RAM, in MB
TotalRamMB == 1000

\* memory_limit normalised to bytes from a percent of total RAM
LimitBytes(max_memory_percent) == ((TotalRamMB * MB) \div 100) * max_memory_percent

\* the characters of the names typed as targets
NameChars(process_name) ==
    CASE process_name = "game.exe" -> <<"g","a","m","e",".","e","x","e">>
      [] process_name = "System" -> <<"S","y","s","t","e","m">>
      [] OTHER -> <<>>

\* the names typed as targets of the enforcement loop
LoopNames == {"game.exe", "System"}

\* what the user types into the memory field: 50 percent of 1000 MB is 500 MB
LoopMemoryTexts == { <<"5","0">> }

\* Policy Registry: the critical names; no whitelist is configured for a target
critical_names == {system_processes[i] : i \in 1..Len(system_processes)}

\* is_protected(name): exact match on the lowercased name
is_protected(name) == Lower(name) \in critical_names

\* snapshot(filter): the pids whose lowercased name is the target's, from pid on
RECURSIVE Snapshot(_, _)
Snapshot(process_name, pid) ==
    IF pid > NProcs THEN <<>>
    ELSE IF procs[pid].alive /\ Lower(ProcName(pid)) = Lower(NameChars(process_name))
    THEN <<pid>> \o Snapshot(process_name, pid + 1)
    ELSE Snapshot(process_name, pid + 1)

\* (variant: Balanced escalates on the next tick whatever the usage is then)
ChooseActionEscalating(strategy, rss, limit, protected, reclaimed_before) ==
    IF protected THEN "none"
    ELSE IF strategy = "Balanced" /\ reclaimed_before THEN "terminate"
    ELSE IF rss <= limit THEN "none"
    ELSE IF strategy = "Aggressive" THEN "terminate"
    ELSE "reclaim"

\* (variant: Conservative escalates the way Balanced does)
ChooseActionAlwaysEscalates(strategy, rss, limit, protected, reclaimed_before) ==
    IF rss <= limit \/ protected THEN "none"
    ELSE IF strategy = "Aggressive" THEN "terminate"
    ELSE IF reclaimed_before THEN "terminate"
    ELSE "reclaim"

\* the action the strategy chooses for one process of the tick
ChooseAction(strategy, rss, limit, protected, reclaimed_before) ==
    IF rss <= limit \/ protected THEN "none"
    ELSE IF strategy = "Aggressive" THEN "terminate"
    ELSE IF strategy = "Balanced" /\ reclaimed_before THEN "terminate"
    ELSE "reclaim"

\* the thread t goes on as u
Becomes(t, u) ==
    /\ limiter_threads' = (limiter_threads \ {t}) \cup {u}
    /\ last_call' = NoCall
    /\ UNCHANGED <<game_mode_checkbox, ram_limit_input, game_whitelist,
                   game_mode_thread, gm_orphans, lt_orphans, gui, pending,
                   kills, events, data, samples>>

\* run() calls limit_ram_for_process, which works by one of the strategies
LoopEnter(t, strategy) ==
    /\ t \in limiter_threads
    /\ t.running
    /\ t.loop.pc = "start"
    /\ Becomes(t, [t EXCEPT !.loop.pc = "boundary", !.loop.strategy = strategy])
    /\ UNCHANGED procs

\* a tick begins: snapshot of the target
LoopSnapshot(t) ==
    /\ t \in limiter_threads
    /\ t.running
    /\ t.loop.pc = "boundary"
    /\ Becomes(t, [t EXCEPT !.loop.pc = "scan",
                            !.loop.scan = Snapshot(t.process_name, 1),
                            !.loop.reclaimed = t.loop.trimmed,
                            !.loop.trimmed = {}])
    /\ UNCHANGED procs

\* the decision for the next process of the tick: an actuator call begins, or a
\* Skipped outcome is emitted
LoopDecide(t) ==
    /\ t \in limiter_threads
    /\ t.running
    /\ t.loop.pc = "scan"
    /\ t.loop.scan # <<>>
    /\ LET pid == Head(t.loop.scan)
           action == IF ~procs[pid].alive THEN "none"
                     ELSE ChooseAction(t.loop.strategy, procs[pid].rss,
                                       LimitBytes(t.max_memory_percent),
                                       is_protected(ProcName(pid)),
                                       pid \in t.loop.reclaimed)
       IN  Becomes(t, IF action = "none"
                      THEN [t EXCEPT !.loop.scan = Tail(@),
                                     !.loop.outcome = [pid |-> pid,
                                                       action_taken |-> "Skipped"]]
                      ELSE [t EXCEPT !.loop.pc = "acting", !.loop.action = action,
                                     !.loop.pid = pid])
    /\ UNCHANGED procs

\* the actuator call in flight completes: terminate kills the process, reclaim
\* leaves its resident size as it is or lowers it
LoopActDone(t, rss) ==
    /\ t \in limiter_threads
    /\ t.running
    /\ t.loop.pc = "acting"
    /\ LET pid == t.loop.pid
       IN  IF t.loop.action = "terminate"
           THEN /\ procs' = [procs EXCEPT ![pid] = Dead]
                /\ Becomes(t, [t EXCEPT !.loop.pc = "scan", !.loop.scan = Tail(@),
                                        !.loop.action = "none", !.loop.pid = 0,
                                        !.loop.outcome = [pid |-> pid,
                                            action_taken |-> "Terminated"]])
           ELSE /\ rss <= procs[pid].rss
                /\ procs' = [procs EXCEPT ![pid].rss = rss]
                /\ Becomes(t, [t EXCEPT !.loop.pc = "scan", !.loop.scan = Tail(@),
                                        !.loop.action = "none", !.loop.pid = 0,
                                        !.loop.trimmed = @ \cup {pid},
                                        !.loop.outcome = [pid |-> pid,
                                            action_taken |-> "SoftTrim"]])

\* the tick is over: the loop sleeps for the interval
LoopSleep(t) ==
    /\ t \in limiter_threads
    /\ t.running
    /\ t.loop.pc = "scan"
    /\ t.loop.scan = <<>>
    /\ Becomes(t, [t EXCEPT !.loop.pc = "boundary"])
    /\ UNCHANGED procs

\* the limiter threads at work on processes that grow, between Start and Stop All
NextLoop ==
    \/ \E memory_text \in LoopMemoryTexts, custom_process \in LoopNames :
            StartLimiting({}, <<>>, memory_text, custom_process, <<>>)
    \/ StopLimiting
    \/ \E pid \in Pids, rss \in RssValues : ProcSetRss(pid, rss)
    \/ \E t \in limiter_threads, strategy \in Strategies : LoopEnter(t, strategy)
    \/ \E t \in limiter_threads : LoopSnapshot(t)
    \/ \E t \in limiter_threads : LoopDecide(t)
    \/ \E t \in limiter_threads, rss \in RssValues : LoopActDone(t, rss)
    \/ \E t \in limiter_threads : LoopSleep(t)

SpecLoop == Init /\ [][NextLoop]_vars

---------------------------------------------------------------------------
(* Properties of the enforcement loop *)

\* this step is the decision of the running thread t, which goes on as u, for the
\* process at the head of its tick
Decides(t, u) ==
    /\ u.process_name = t.process_name
    /\ t.running
    /\ u.running
    /\ t.loop.pc = "scan"
    /\ t.loop.scan # <<>>
    /\ u.loop # t.loop

\* this step completes the actuator call of the running thread t, which goes on as u
Completes(t, u) ==
    /\ u.process_name = t.process_name
    /\ t.running
    /\ u.running
    /\ t.loop.pc = "acting"
    /\ u.loop # t.loop

\* the limit of every thread started with "50" in the memory field: 500 MB
HalfOfRam == 500 * MB

\* C16: under Balanced, a process that was trimmed in the tick before and is at or
\* below the limit when the loop looks at it again gets no actuator call in that
\* tick and stays alive; a terminate call begins only for a process that was
\* trimmed in the tick before and is over the limit again; and no process dies
\* but by a terminate call that was begun.
C16_BalancedNoEscalationAfterReclaim ==
    [][/\ \A t \in limiter_threads, u \in limiter_threads' :
            (Decides(t, u) /\ t.loop.strategy = "Balanced") =>
                LET pid == Head(t.loop.scan)
                IN  /\ (pid \in t.loop.reclaimed /\ procs[pid].rss <= HalfOfRam)
                        => /\ u.loop.pc = "scan"
                           /\ u.loop.action = "none"
                           /\ u.loop.outcome = [pid |-> pid,
                                                action_taken |-> "Skipped"]
                           /\ procs' = procs
                    /\ (u.loop.pc = "acting" /\ u.loop.action = "terminate")
                        => /\ pid \in t.loop.reclaimed
                           /\ procs[pid].rss > HalfOfRam
                    /\ (u.loop.pc = "acting" /\ pid \notin t.loop.reclaimed)
                        => u.loop.action = "reclaim"
       /\ \A pid \in Pids :
            (procs[pid].alive /\ ~procs'[pid].alive) =>
                \E t \in limiter_threads :
                    /\ t.loop.pc = "acting"
                    /\ t.loop.action = "terminate"
                    /\ t.loop.pid = pid]_vars

\* C16 witness: the Balanced loop for game.exe trimmed Game.exe in the tick
\* before, has now looked at it again at exactly 500 MB and emitted Skipped, and
\* Game.exe is alive.
C16_Witness ==
    \E t \in RunningFor(limiter_threads, "game.exe") :
        /\ t.loop.strategy = "Balanced"
        /\ t.loop.pc = "scan"
        /\ t.loop.scan = <<>>
        /\ 2 \in t.loop.reclaimed
        /\ t.loop.outcome = [pid |-> 2, action_taken |-> "Skipped"]
        /\ procs[2].alive
        /\ procs[2].rss = HalfOfRam

\* C17: under Conservative, no terminate call is ever begun and no Terminated
\* outcome emitted; every decision for an unprotected process over the limit
\* begins a reclaim, tick after tick, and the call's completion emits SoftTrim
\* and leaves the process alive.
C17_ConservativeNeverTerminates ==
    [][/\ \A u \in limiter_threads' :
            u.loop.strategy = "Conservative" =>
                /\ u.loop.action # "terminate"
                /\ u.loop.outcome.action_taken # "Terminated"
       /\ \A t \in limiter_threads, u \in limiter_threads' :
            (Decides(t, u) /\ t.loop.strategy = "Conservative") =>
                LET pid == Head(t.loop.scan)
                IN  ( /\ procs[pid].alive
                      /\ procs[pid].rss > HalfOfRam
                      /\ Lower(ProcName(pid)) \notin critical_names )
                        => (u.loop.pc = "acting" /\ u.loop.action = "reclaim")
       /\ \A t \in limiter_threads, u \in limiter_threads' :
            (Completes(t, u) /\ t.loop.strategy = "Conservative") =>
                /\ u.loop.outcome = [pid |-> t.loop.pid, action_taken |-> "SoftTrim"]
                /\ procs'[t.loop.pid].alive = procs[t.loop.pid].alive]_vars

\* C17 witness: the Conservative loop for game.exe trimmed Game.exe in the tick
\* before and again in this one, and Game.exe is alive and over the limit.
C17_Witness ==
    \E t \in RunningFor(limiter_threads, "game.exe") :
        /\ t.loop.strategy = "Conservative"
        /\ 2 \in t.loop.reclaimed
        /\ 2 \in t.loop.trimmed
        /\ t.loop.outcome = [pid |-> 2, action_taken |-> "SoftTrim"]
        /\ procs[2].alive
        /\ procs[2].rss > HalfOfRam

\* C18 as claimed: a limiter thread leaves Running only at a tick boundary: a
\* thread that is running in the middle of a tick or with an actuator call in
\* flight is still running one step later.
C18_Original ==
    [][\A t \in limiter_threads :
        (t.running /\ t.loop.pc \in {"scan", "acting"}) =>
            \E u \in limiter_threads' :
                u.process_name = t.process_name /\ u.running]_vars

---------------------------------------------------------------------------
(* Errors inside the Game Mode scan *)

\* this step is a step of the Game Mode thread itself, in the middle of a tick
ScanIterates ==
    /\ game_mode_thread.pc = "scan"
    /\ game_mode_thread.scan # <<>>
    /\ game_mode_thread' # game_mode_thread
    /\ game_mode_thread'.running = game_mode_thread.running

\* the iteration on a process raised NoSuchProcess or AccessDenied
ScanRaised == game_mode_thread.pc = "scan" /\ game_mode_thread.caught # "none"

\* C21: an iteration of the Game Mode scan that raises (the process vanished, or
\* reading or killing it was denied) ends neither the scan nor the loop: the
\* thread stays in its for loop with the remaining processes of the tick still
\* to look at, an exception is only ever held inside the for loop, the tick
\* reaches its end, and a thread that was not stopped begins the next tick with
\* a fresh snapshot.
C21_ErrorsNeverAbort ==
    /\ [][/\ ScanIterates =>
                /\ game_mode_thread'.pc = "scan"
                /\ game_mode_thread'.scan = Tail(game_mode_thread.scan)
          /\ game_mode_thread'.caught # "none" => game_mode_thread'.pc = "scan"
          /\ ( /\ game_mode_thread.pc = "test"
               /\ game_mode_thread.running
               /\ game_mode_thread'.running
               /\ game_mode_thread' # game_mode_thread )
                => /\ game_mode_thread'.pc = "scan"
                   /\ game_mode_thread'.scan = AliveFrom(1)]_vars
    /\ ScanRaised ~> (game_mode_thread.pc = "test")

\* C21 witness: reading System, the first process of the tick, was denied, and
\* the running thread is still in its for loop with Game.exe next to look at.
C21_Witness ==
    /\ ScanRaised
    /\ game_mode_thread.caught = "AccessDenied"
    /\ game_mode_thread.running
    /\ game_mode_thread.scan = <<2>>
    /\ procs[1].alive

\* this step is the iteration on pid, and reading or killing pid was denied in it
DeniedNow(pid) ==
    /\ ScanIterates
    /\ Head(game_mode_thread.scan) = pid
    /\ game_mode_thread'.caught = "AccessDenied"

---------------------------------------------------------------------------
(* Whitelist matching *)

\* what the user types into the whitelist field in this specification: an entry
\* that is a part of the name Game.exe, one that Game.exe is a part of, and
\* Game.exe itself in other case between blanks
MatchWhitelistTexts == {
    <<"g","a","m","e">>,
    <<"G","a","m","e",".","e","x","e","2">>,
    <<" ","G","A","M","E",".","E","X","E"," ">> }

\* Game Mode switched on and off over processes that grow and shrink, with the
\* whitelist field edited in between
NextMatch ==
    \/ \E pid \in Pids, rss \in RssValues : ProcSetRss(pid, rss)
    \/ GMLoopTest
    \/ GMScanStep("none")
    \/ GMSleep
    \/ ToggleOn
    \/ ToggleOff
    \/ ToggleOffDone
    \/ \E text \in MatchWhitelistTexts : EditWhitelist(text)

SpecMatch == Init /\ [][NextMatch]_vars

\* this step starts a Game Mode thread
StartsGameMode == game_mode_thread.pc = "None" /\ game_mode_thread'.pc # "None"

\* C23: a scanned process over the limit survives its iteration if and only if
\* its lowercased name is equal to an entry of the controller's whitelist; the
\* entry typed as " GAME.EXE " is held as "game.exe", and the entries "game" and
\* "Game.exe2", which are a part of the name Game.exe or have it as a part, do
\* not put "game.exe" into the whitelist and do not protect Game.exe.
C23_ExactCaseInsensitiveMatch ==
    [][/\ \A pid \in Pids :
            ( /\ ScansNow(pid)
              /\ procs[pid].alive
              /\ OverLimitBytes(procs[pid].rss, game_mode_thread.ram_limit_mb) )
                => (procs'[pid].alive <=>
                        \E i \in 1..Len(game_mode_thread.whitelist) :
                            game_mode_thread.whitelist[i] = Lower(ProcName(pid)))
       /\ StartsGameMode =>
            ( <<"g","a","m","e",".","e","x","e">>
                    \in Entries(game_mode_thread'.whitelist)
                <=> game_whitelist = <<" ","G","A","M","E",".","E","X","E"," ">> )
      ]_vars

\* C23 witness: the tick of a controller whose whitelist was typed as "game" is
\* over: Game.exe, over the limit, was killed and System is alive.
C23_Witness ==
    /\ ScanComplete
    /\ game_mode_thread.whitelist[1] = <<"g","a","m","e">>
    /\ 2 \in kills
    /\ ~procs[2].alive
    /\ procs[1].alive

---------------------------------------------------------------------------
(* Close requests that are not accepted *)

\* C24 as claimed: when closeEvent returns without accepting the close, the
\* limiter threads are as they were and, with the Game Mode box checked, the
\* Game Mode thread is still running its loop.
C24_Original ==
    [][(last_call'.name = "closeEvent" /\ gui' = "idle") =>
        /\ limiter_threads' = limiter_threads
        /\ lt_orphans' = lt_orphans
        /\ game_mode_checkbox' =>
                (IsAlive(game_mode_thread') /\ game_mode_thread'.running)]_vars

---------------------------------------------------------------------------
(* Loading a configuration that enables Game Mode *)

\* C25 as claimed: a Game Mode thread started by load_configuration has the RAM
\* limit of the loaded configuration (50 in every configuration loaded here) and
\* the whitelist made of the loaded whitelist text, which is what the two fields
\* hold when load_configuration returns.
C25_Original ==
    [][( /\ last_call'.name = "load_configuration"
         /\ ~game_mode_checkbox
         /\ game_mode_checkbox'
         /\ IsAlive(game_mode_thread') ) =>
            /\ ram_limit_input' = <<"5","0">>
            /\ game_mode_thread'.ram_limit_mb = 50
            /\ Len(game_mode_thread'.whitelist) =
                    (IF game_whitelist' = <<>> THEN 1 ELSE 2) + 7]_vars

---------------------------------------------------------------------------
(* Starting again after a stop *)

\* the limiter threads started, stopped and finishing on their own
NextRestart ==
    \/ \E checked \in SUBSET Checkable, interval_text \in IntervalTexts,
          memory_text \in MemoryTexts, custom_process \in CustomNames,
          custom_limit \in CustomLimitTexts :
            StartLimiting(checked, interval_text, memory_text, custom_process,
                          custom_limit)
    \/ StopLimiting
    \/ \E t \in limiter_threads : LimiterThreadExit(t)

SpecRestart == InitSupervisor /\ [][NextRestart]_vars

\* this step is a start_limiting that returned and asked to start process_name
\* while no thread for it was running
FreshStart(process_name) ==
    /\ last_call'.name = "start_limiting"
    /\ last_call'.raised = "none"
    /\ \E i \in 1..Len(last_call'.requested) :
            last_call'.requested[i] = process_name
    /\ RunningFor(limiter_threads, process_name) = {}

\* C26: when stop_limiting returns the table is empty and no limiter thread
\* runs, in the table or outside it; and a start for a name that has no running
\* thread (the table is empty, or holds the thread of that name that finished
\* on its own) leaves the table with exactly one thread for that name, a new one
\* that runs, writes its "Started" line and keeps no finished thread around.
C26_RestartAfterStop ==
    [][/\ last_call'.name = "stop_limiting" =>
            /\ limiter_threads' = {}
            /\ \A t \in lt_orphans' : ~t.running
       /\ \A process_name \in CustomNames \cup Checkable :
            FreshStart(process_name) =>
                /\ Cardinality({t \in limiter_threads' :
                                    t.process_name = process_name}) = 1
                /\ \A t \in limiter_threads' :
                        t.process_name = process_name =>
                            (t.running /\ t.loop = NotEntered)
                /\ \E i \in 1..Len(last_call'.output) :
                        /\ last_call'.output[i].text = "Started limiting RAM for"
                        /\ last_call'.output[i].name = process_name
                /\ \A t \in lt_orphans' : t.process_name # process_name]_vars

\* C26 witness: chrome's thread has finished on its own and is still in the
\* table, and a start_limiting has just started myapp and has written its line.
C26_Witness ==
    /\ last_call.name = "start_limiting"
    /\ \E i \in 1..Len(last_call.output) : last_call.output[i].name = "myapp"
    /\ RunningFor(limiter_threads, "myapp") # {}
    /\ \E t \in limiter_threads : t.process_name = "chrome" /\ ~t.running

---------------------------------------------------------------------------
(* What "Stop All" and the Game Mode box leave alone *)

\* this step is toggle_game_mode: it returned, or it blocked in its wait()
TogglesGameMode ==
    \/ last_call'.name = "toggle_game_mode"
    \/ gui = "idle" /\ gui' = "toggle_wait"

\* C27: stop_limiting leaves the Game Mode thread exactly as it was (its limit,
\* its whitelist, its flag and its place in the tick), the box, the two Game
\* Mode fields, the processes and the events; and toggle_game_mode, whichever
\* way the box goes, leaves the table of limiter threads and every limiter
\* thread as it was.
C27_StopAndToggleFrames ==
    [][/\ last_call'.name = "stop_limiting" =>
            UNCHANGED <<game_mode_thread, gm_orphans, game_mode_checkbox,
                        ram_limit_input, game_whitelist, procs, kills, events>>
       /\ TogglesGameMode =>
            UNCHANGED <<limiter_threads, lt_orphans, procs, kills, events>>]_vars

\* C27 witness: stop_limiting has just terminated a limiter thread while the
\* Game Mode thread, not stopped, is in the middle of a tick with the limit 600.
C27_Witness ==
    /\ last_call.name = "stop_limiting"
    /\ last_call.terminated > 0
    /\ limiter_threads = {}
    /\ game_mode_thread.running
    /\ game_mode_thread.pc = "scan"
    /\ game_mode_thread.scan # <<>>
    /\ game_mode_thread.ram_limit_mb = 600
    /\ game_mode_checkbox

---------------------------------------------------------------------------
(* The custom process's own limit *)

\* the lines of a handler's output that say the custom limit is invalid
InvalidLimitLines(output) ==
    {i \in 1..Len(output) :
        output[i].text = "Invalid custom memory limit. Using global limit."}

\* C28: a start_limiting that returns, for a custom process that has no running
\* thread and no checked box of its name, starts a thread for it: with the
\* custom limit "60%" (no integer) the thread has the global limit and one
\* "Invalid custom memory limit" line quoting "60%" is put out; with an empty
\* custom limit the thread has the global limit and no such line is put out;
\* with "60" the thread has the limit 60 and no such line is put out. The
\* global limit is 75 for an empty memory field and 80 for "80".
C28_CustomLimitFallback ==
    [][\A checked \in SUBSET Checkable, interval_text \in IntervalTexts,
          memory_text \in MemoryTexts, custom_process \in {"chrome", "myapp"},
          custom_limit \in CustomLimitTexts :
            ( /\ StartLimiting(checked, interval_text, memory_text,
                               custom_process, custom_limit)
              /\ last_call'.raised = "none"
              /\ custom_process \notin checked
              /\ RunningFor(limiter_threads, custom_process) = {} ) =>
                LET global == IF memory_text = <<>> THEN 75 ELSE 80
                    expected == IF custom_limit = <<"6","0">> THEN 60 ELSE global
                    invalid == InvalidLimitLines(last_call'.output)
                IN  /\ \E t \in RunningFor(limiter_threads', custom_process) :
                            /\ t.max_memory_percent = expected
                            /\ t.loop = NotEntered
                    /\ \E i \in 1..Len(last_call'.output) :
                            /\ last_call'.output[i].text = "Started limiting RAM for"
                            /\ last_call'.output[i].name = custom_process
                            /\ last_call'.output[i].value = expected
                            /\ \A j \in invalid : j < i
                    /\ IF custom_limit = <<"6","0","%">>
                       THEN /\ Cardinality(invalid) = 1
                            /\ \A j \in invalid :
                                    last_call'.output[j].quoted = custom_limit
                       ELSE invalid = {}]_vars

\* C28 witness: start_limiting has put out the "Invalid custom memory limit" line
\* quoting "60%" and then started myapp, whose thread runs with the global
\* limit 80.
C28_Witness ==
    /\ last_call.name = "start_limiting"
    /\ \E j \in InvalidLimitLines(last_call.output) :
            last_call.output[j].quoted = <<"6","0","%">>
    /\ \E i \in 1..Len(last_call.output) :
            last_call.output[i].name = "myapp" /\ last_call.output[i].value = 80
    /\ \E t \in RunningFor(limiter_threads, "myapp") : t.max_memory_percent = 80

---------------------------------------------------------------------------
(* The usage history behind the graph *)

\* how many samples the memory thread emits in this specification
MaxSamples == 120

\* len(self.data) > 100: the most points the history keeps
HistoryCap == 100

\* mem.percent of the k-th sample: any 101 samples in a row differ, so that the
\* place of each sample in the history can be told
Usage(k) == k % 101

\* (variant: data[:100], the oldest points are kept)
KeepFirst(points) ==
    IF Len(points) > HistoryCap THEN SubSeq(points, 1, HistoryCap) ELSE points

\* if len(self.data) > 100: self.data = self.data[-100:]
KeepLast(points) ==
    IF Len(points) > HistoryCap
    THEN SubSeq(points, Len(points) - HistoryCap + 1, Len(points))
    ELSE points

\* SystemMemoryThread emits its next sample and update_system_memory runs in
\* the GUI thread; the label, the curve and the progress bar are redrawn from
\* the message, self.data and usage
UpdateSystemMemory(usage) ==
    /\ gui = "idle"
    /\ samples < MaxSamples
    /\ usage = Usage(samples + 1)
    /\ samples' = samples + 1
    /\ data' = KeepLast(Append(data, usage))
    /\ last_call' = Returned("update_system_memory", "none", <<>>)
    /\ UNCHANGED <<procs, game_mode_checkbox, ram_limit_input, game_whitelist,
                   game_mode_thread, gm_orphans, limiter_threads, lt_orphans,
                   gui, pending, kills, events>>

\* the memory thread's samples arriving in the window
NextHistory == \E usage \in 0..100 : UpdateSystemMemory(usage)

SpecHistory == Init /\ [][NextHistory]_vars

\* C29: the history holds at most 100 samples, as many as were received up to
\* 100, and its i-th point is the sample received Len(data) - i updates before
\* the latest one: the most recent samples, oldest first, none missing in between.
C29_HistoryIsLastHundred ==
    /\ Len(data) <= 100
    /\ Len(data) = (IF samples < 100 THEN samples ELSE 100)
    /\ \A i \in 1..Len(data) : data[i] = (samples - Len(data) + i) % 101

\* C29 witness: 105 samples were received: the history holds 100 of them, from
\* the 6th to the 105th (whose usage, 105 % 101, is 4).
C29_Witness ==
    /\ last_call.name = "update_system_memory"
    /\ samples = 105
    /\ Len(data) = 100
    /\ data[1] = 6
    /\ data[100] = 4

====
